---- MODULE Spec2Model ----
(***************************************************************************)
(* Steam price tracker: check_steam_prices of steam_checker.py.            *)
(*                                                                         *)
(* One pass loads the history file, walks the configured apps in order,    *)
(* fetches each one, decides whether to notify, sends the Discord message  *)
(* through the threshold gate, rewrites the app's history record and, at   *)
(* the end of the loop, saves the history file.                            *)
(*                                                                         *)
(* Times are the number of the pass (datetime.now() is read during the     *)
(* pass and only ever compared with values of earlier passes); the empty   *)
(* string that stands for "no time" in the code is NoTime.                 *)
(***************************************************************************)
EXTENDS Integers, Sequences, FiniteSets, TLC

\* ------------------------------------------------------------------ bounds
\* Requests to the store API over the whole run.
MaxFetches == 3

\* ------------------------------------------------------- program constants
FreePrice == 0
FreeDiscount == 100
DefaultLastDiscount == 0
NoTime == 0

\* --------------------------------------------------------- input domains
\* The two default apps of load_config.
AppIds == {"1085660", "1090150"}

\* config["apps"]: a dict, so ids are unique; iteration is insertion order.
AppLists ==
    {<<a>> : a \in AppIds} \cup {s \in AppIds \X AppIds : s[1] # s[2]}

\* config["notifications"]["min_discount_percent"] (10 by default; any integer
\* the JSON file holds).
Thresholds == {0, 10, 75}

Prices == {500, 1000}
Discounts == {0, 50}

\* What requests.get / raise_for_status / response.json() and the walk down
\* the payload produce for one app.
Responses ==
    [kind : {"request_error", "unexpected_error", "not_success", "key_error",
             "no_price", "free"},
     final : {0}, has_discount : {FALSE}, discount_percent : {0}]
    \cup
    [kind : {"priced"}, final : Prices, has_discount : {TRUE},
     discount_percent : Discounts]
    \cup
    [kind : {"priced"}, final : Prices, has_discount : {FALSE},
     discount_percent : {0}]

\* What the try block of send_discord_notification meets: no
\* DISCORD_WEBHOOK_URL in the environment, the status code of requests.post,
\* or a RequestException.
PostOutcomes == {"no_webhook", "200", "204", "404", "request_error"}

\* ------------------------------------------------------------------ state
VARIABLES
    file,               \* precios_vistos.json: [kind, map]
    pc,                 \* "idle" between passes, "loop" inside the for loop
    now,                \* the time of the current pass
    APPS,               \* config["apps"] of this pass, in order
    MIN_DISCOUNT,       \* config["notifications"]["min_discount_percent"]
    i,                  \* index of the next app of APPS
    history,            \* the in-memory history dict
    all_apps_data,      \* dict returned to the report
    apps_checked,       \* counter returned to the report
    notifications_sent, \* counter returned to the report
    \* observation of the run (what a test harness with mocks records)
    fileAtStart,        \* the file when this pass called load_history
    fetched,            \* ids given to requests.get in this pass, in order
    sent,               \* calls of send_discord_notification in this pass
    saves,              \* the save_history calls of this pass
    last,               \* the loop iteration that ran last
    fetches             \* requests.get calls since the start of the run

vars == <<file, pc, now, APPS, MIN_DISCOUNT, i, history, all_apps_data,
          apps_checked, notifications_sent, fileAtStart, fetched, sent, saves,
          last, fetches>>

\* ------------------------------------------------------------- dictionaries
EmptyDict == [k \in {} |-> 0]

Put(d, k, v) == [x \in (DOMAIN d) \cup {k} |-> IF x = k THEN v ELSE d[x]]

Has(d, k) == k \in DOMAIN d

\* -------------------------------------------------------------- State Store
MissingFile == [kind |-> "missing", map |-> EmptyDict]
CorruptFile == [kind |-> "corrupt", map |-> EmptyDict]
JsonFile(h) == [kind |-> "json", map |-> h]

\* The product ids the file holds records for.
PersistedIds(f) == IF f.kind = "json" THEN DOMAIN f.map ELSE {}

\* load_history: the file's content, or {} when the file does not exist, does
\* not parse, or cannot be read (readable = FALSE: open/read raised IOError).
load_history(f, readable) ==
    IF f.kind = "missing" THEN EmptyDict
    ELSE IF ~readable THEN EmptyDict
    ELSE IF f.kind = "corrupt" THEN EmptyDict
    ELSE f.map

\* save_history: open(DB_FILE, 'w') truncates, json.dump writes. outcome is
\* "ok", "open_failed" (IOError before truncation) or "write_failed" (IOError
\* after truncation: what is left does not parse).
save_history(f, h, outcome) ==
    CASE outcome = "ok" -> JsonFile(h)
      [] outcome = "open_failed" -> f
      [] outcome = "write_failed" -> CorruptFile

SaveOutcomes == {"ok", "open_failed", "write_failed"}

\* ---------------------------------------------------------- Source Client
\* The response yields app data: app_id in data and data[app_id]["success"].
Success(resp) == resp.kind \in {"no_price", "free", "priced"}

\* The iteration ends in one of the except clauses.
Raises(resp) == resp.kind \in {"request_error", "unexpected_error", "key_error"}

ObservedWithoutPrice(resp) == resp.kind \in {"free", "priced", "no_price"}

\* An observation is obtained: is_free, or a price_overview block.
Observed(resp) == resp.kind \in {"free", "priced"}

current_price(resp) == IF resp.kind = "free" THEN FreePrice ELSE resp.final

discount_percent(resp) ==
    IF resp.kind = "free" THEN FreeDiscount
    ELSE IF resp.has_discount THEN resp.discount_percent
    ELSE 0

\* ------------------------------------------------------- Decision Engine
\* history[app_id].get("last_price", float('inf')): a record without the key
\* compares as higher than any price.
PriceBelowLast(rec, price) ==
    IF Has(rec, "last_price") THEN price < rec.last_price ELSE TRUE

last_discount(rec) ==
    IF Has(rec, "last_discount") THEN rec.last_discount ELSE DefaultLastDiscount

last_notification(h, id) ==
    IF Has(h, id) /\ Has(h[id], "last_notification")
    THEN h[id].last_notification
    ELSE NoTime

BranchNoIncrease(h, id, price, disc, n) ==
    IF ~Has(h, id) THEN "first_time"
    ELSE IF PriceBelowLast(h[id], price) THEN "price_drop"
    ELSE IF disc >= n /\ last_discount(h[id]) = 0 THEN "new_discount"
    ELSE "none"

BranchDiscountFirst(h, id, price, disc, n) ==
    IF ~Has(h, id) THEN "first_time"
    ELSE IF disc > last_discount(h[id]) THEN "discount_increase"
    ELSE IF PriceBelowLast(h[id], price) THEN "price_drop"
    ELSE IF disc >= n /\ last_discount(h[id]) = 0 THEN "new_discount"
    ELSE "none"

BranchNewDiscountFirst(h, id, price, disc, n) ==
    IF ~Has(h, id) THEN "first_time"
    ELSE IF PriceBelowLast(h[id], price) THEN "price_drop"
    ELSE IF disc >= n /\ last_discount(h[id]) = 0 THEN "new_discount"
    ELSE IF disc > last_discount(h[id]) THEN "discount_increase"
    ELSE "none"

\* The if/elif chain: which branch is taken.
Branch(h, id, price, disc, n) ==
    IF ~Has(h, id) THEN "first_time"
    ELSE IF PriceBelowLast(h[id], price) THEN "price_drop"
    ELSE IF disc > last_discount(h[id]) THEN "discount_increase"
    ELSE IF disc >= n /\ last_discount(h[id]) = 0 THEN "new_discount"
    ELSE "none"

should_notify_strict(h, id, price, disc, n) ==
    LET b == Branch(h, id, price, disc, n)
    IN  IF b = "first_time" THEN disc > n ELSE b # "none"

should_notify(h, id, price, disc, n) ==
    LET b == Branch(h, id, price, disc, n)
    IN  IF b = "first_time" THEN disc >= n ELSE b # "none"

notification_reason(h, id, price, disc, n) ==
    LET b == Branch(h, id, price, disc, n)
    IN  CASE b = "first_time" /\ disc >= n -> "Nueva verificacion con descuento"
          [] b = "price_drop" -> "Precio reducido"
          [] b = "discount_increase" -> "Descuento aumentado"
          [] b = "new_discount" -> "Nuevo descuento"
          [] OTHER -> ""

GateOpen(should, disc, n) == should

\* "if should_notify and discount_percent >= MIN_DISCOUNT"
Gate(should, disc, n) == should /\ disc >= n

\* ----------------------------------------------------------------- Notifier
\* send_discord_notification's return value.
send_discord_notification(post) ==
    IF post = "no_webhook" THEN FALSE
    ELSE IF post \in {"200", "204"} THEN TRUE
    ELSE FALSE

\* ------------------------------------------------------------ Orchestrator
\* history[app_id] = {...} after the gate.
NewRecord(h, id, price, disc, should, t) ==
    [last_price |-> price,
     last_discount |-> disc,
     last_notification |-> IF should THEN t ELSE last_notification(h, id),
     name |-> id,
     last_checked |-> t]

UpdateHistoryIfNotify(h, id, price, disc, should, t) ==
    IF should THEN Put(h, id, NewRecord(h, id, price, disc, should, t)) ELSE h

\* "Actualizar historial": the assignment is outside the gate's if block.
UpdateHistory(h, id, price, disc, should, t) ==
    Put(h, id, NewRecord(h, id, price, disc, should, t))

NextIndexAbort(k, resp) == IF Raises(resp) THEN Len(APPS) + 1 ELSE k + 1

\* The try block is inside the for loop: the loop goes on to the next app
\* whatever the iteration did.
NextIndex(k, resp) == k + 1

NoIteration ==
    [kind |-> "none", app_id |-> "", observed |-> FALSE, price |-> 0,
     discount |-> 0, before |-> EmptyDict, should_notify |-> FALSE,
     reason |-> "", invoked |-> FALSE, delivered |-> FALSE]

Init ==
    /\ file = MissingFile
    /\ pc = "idle"
    /\ now = 0
    /\ APPS = <<>>
    /\ MIN_DISCOUNT = 10
    /\ i = 1
    /\ history = EmptyDict
    /\ all_apps_data = EmptyDict
    /\ apps_checked = 0
    /\ notifications_sent = 0
    /\ fileAtStart = MissingFile
    /\ fetched = <<>>
    /\ sent = <<>>
    /\ saves = <<>>
    /\ last = NoIteration
    /\ fetches = 0

\* check_steam_prices up to the for loop: load_history and the config reads.
StartPass ==
    /\ pc = "idle"
    /\ \E apps \in AppLists, n \in Thresholds, readable \in BOOLEAN :
        /\ fetches + Len(apps) <= MaxFetches
        /\ APPS' = apps
        /\ MIN_DISCOUNT' = n
        /\ history' = load_history(file, readable)
    /\ now' = now + 1
    /\ pc' = "loop"
    /\ i' = 1
    /\ all_apps_data' = EmptyDict
    /\ apps_checked' = 0
    /\ notifications_sent' = 0
    /\ fileAtStart' = file
    /\ fetched' = <<>>
    /\ sent' = <<>>
    /\ saves' = <<>>
    /\ last' = NoIteration
    /\ UNCHANGED <<file, fetches>>

\* One iteration of the for loop whose response gives no observation: an
\* except clause, the else branch of the success test, or the continue.
SkipApp ==
    /\ pc = "loop"
    /\ i <= Len(APPS)
    /\ \E resp \in Responses :
        /\ ~Observed(resp)
        /\ fetched' = Append(fetched, APPS[i])
        /\ fetches' = fetches + 1
        /\ apps_checked' = IF Success(resp) THEN apps_checked + 1 ELSE apps_checked
        /\ i' = NextIndex(i, resp)
        /\ last' = [NoIteration EXCEPT !.kind = resp.kind, !.app_id = APPS[i],
                                       !.before = history]
    /\ UNCHANGED <<file, pc, now, APPS, MIN_DISCOUNT, history, all_apps_data,
                   notifications_sent, fileAtStart, sent, saves>>

\* One iteration of the for loop with an observation: decision, gate,
\* notification, history update.
ProcessApp ==
    /\ pc = "loop"
    /\ i <= Len(APPS)
    /\ \E resp \in Responses, post \in PostOutcomes :
        LET id == APPS[i]
            price == current_price(resp)
            disc == discount_percent(resp)
            should == should_notify(history, id, price, disc, MIN_DISCOUNT)
            reason == notification_reason(history, id, price, disc, MIN_DISCOUNT)
            invoked == Gate(should, disc, MIN_DISCOUNT)
            delivered == invoked /\ send_discord_notification(post)
        IN  /\ Observed(resp)
            /\ fetched' = Append(fetched, id)
            /\ fetches' = fetches + 1
            /\ apps_checked' = apps_checked + 1
            /\ all_apps_data' = Put(all_apps_data, id,
                                    [current_price |-> price,
                                     discount_percent |-> disc])
            /\ sent' = IF invoked
                       THEN Append(sent, [app_id |-> id, reason |-> reason,
                                          discount_percent |-> disc,
                                          delivered |-> delivered])
                       ELSE sent
            /\ notifications_sent' = IF delivered THEN notifications_sent + 1
                                     ELSE notifications_sent
            /\ history' = UpdateHistory(history, id, price, disc, should, now)
            /\ i' = NextIndex(i, resp)
            /\ last' = [kind |-> resp.kind, app_id |-> id, observed |-> TRUE,
                        price |-> price, discount |-> disc, before |-> history,
                        should_notify |-> should, reason |-> reason,
                        invoked |-> invoked, delivered |-> delivered]
    /\ UNCHANGED <<file, pc, now, APPS, MIN_DISCOUNT, fileAtStart, saves>>

\* After the loop: save_history(history) and the return.
FinishPass ==
    /\ pc = "loop"
    /\ i > Len(APPS)
    /\ \E outcome \in SaveOutcomes :
        /\ file' = save_history(file, history, outcome)
        /\ saves' = Append(saves, [history |-> history,
                                   saved |-> (outcome = "ok")])
    /\ pc' = "idle"
    /\ UNCHANGED <<now, APPS, MIN_DISCOUNT, i, history, all_apps_data,
                   apps_checked, notifications_sent, fileAtStart, fetched, sent,
                   last, fetches>>

Next == StartPass \/ SkipApp \/ ProcessApp \/ FinishPass

Spec == Init /\ [][Next]_vars

\* ------------------------------------------------------------- vocabulary
\* Calls of the notifier for one app in the current pass.
Calls(id) == Cardinality({k \in 1..Len(sent) : sent[k].app_id = id})

\* The record the last iteration found for its app (the app occurs once in
\* APPS, so this is also the record load_history returned for it).
HadRecord == Has(last.before, last.app_id)
PriorRecord == last.before[last.app_id]

\* The last iteration took a path that yields no observation.
Skipped == last.kind \in {"request_error", "unexpected_error", "key_error",
                          "not_success", "no_price"}

\* ------------------------------------------------------------------ claims
\* C1. Threshold gate: the notifier is invoked for a product only if the
\* observed discount_percent is >= min_discount_percent, whichever rule matched.
C1_ThresholdGate ==
    /\ \A k \in 1..Len(sent) : sent[k].discount_percent >= MIN_DISCOUNT
    /\ last.invoked => last.discount >= MIN_DISCOUNT

\* A change rule matched on a discount below the threshold (and the gate
\* had to decide).
C1_Witness ==
    /\ last.observed
    /\ HadRecord
    /\ last.should_notify
    /\ last.discount < MIN_DISCOUNT
    /\ Calls(last.app_id) = 0

\* C2. First-time rule: a product without a record whose observation is
\* obtained has the notifier invoked exactly once when discount >= threshold
\* and never when discount < threshold; either way a record holding the
\* observed price and discount is created.
C2_FirstTime ==
    (last.observed /\ ~HadRecord) =>
        /\ Calls(last.app_id) = (IF last.discount >= MIN_DISCOUNT THEN 1 ELSE 0)
        /\ last.invoked = (last.discount >= MIN_DISCOUNT)
        /\ Has(history, last.app_id)
        /\ history[last.app_id].last_price = last.price
        /\ history[last.app_id].last_discount = last.discount

\* One pass over two apps never seen before: the first at or above the
\* threshold (one call), the second below it (no call), both recorded.
C2_Witness ==
    /\ pc = "loop"
    /\ fileAtStart.kind = "missing"
    /\ Len(APPS) = 2
    /\ i = 3
    /\ MIN_DISCOUNT = 10
    /\ Calls(APPS[1]) = 1
    /\ Calls(APPS[2]) = 0
    /\ last.observed /\ ~HadRecord /\ last.discount < MIN_DISCOUNT
    /\ DOMAIN history = {APPS[1], APPS[2]}

\* C3. Change rules with two-stage gate: with a prior record, a price strictly
\* below last_price or a discount strictly above last_discount sets
\* should_notify whatever the threshold and the direction of the discount, and
\* the notifier is invoked iff discount_percent >= threshold.
C3_ChangeRules ==
    (/\ last.observed
     /\ HadRecord
     /\ \/ last.price < PriorRecord.last_price
        \/ last.discount > PriorRecord.last_discount) =>
        /\ last.should_notify
        /\ last.invoked = (last.discount >= MIN_DISCOUNT)
        /\ Calls(last.app_id) = (IF last.discount >= MIN_DISCOUNT THEN 1 ELSE 0)

\* The price dropped while the discount went down, below the threshold: the
\* rule matched, the gate held the message back.
C3_Witness ==
    /\ last.observed
    /\ HadRecord
    /\ last.price < PriorRecord.last_price
    /\ last.discount < PriorRecord.last_discount
    /\ last.discount < MIN_DISCOUNT
    /\ last.should_notify
    /\ ~last.invoked

\* C4. No change, no notification: with a prior record, price equal to
\* last_price and discount <= last_discount, no rule matches and the notifier
\* is not invoked, for every threshold the configuration can supply.
C4_NoChangeNoNotification ==
    (/\ last.observed
     /\ HadRecord
     /\ last.price = PriorRecord.last_price
     /\ last.discount <= PriorRecord.last_discount) =>
        /\ ~last.should_notify
        /\ ~last.invoked
        /\ Calls(last.app_id) = 0

\* C5. Idempotence across passes: when the record found for a product was
\* written by the pass just before this one and this pass obtains the same
\* price and discount, the notifier is not invoked for that product.
C5_Idempotence ==
    (/\ last.observed
     /\ HadRecord
     /\ PriorRecord.last_checked = now - 1
     /\ PriorRecord.last_price = last.price
     /\ PriorRecord.last_discount = last.discount) =>
        /\ ~last.invoked
        /\ Calls(last.app_id) = 0

\* C6. History is updated regardless of the decision and of delivery: every
\* product observed in the pass has, once processed, a record holding the
\* observed price and discount, whether no rule matched, the gate blocked the
\* send, or the notifier returned True or False; and the loop has moved on to
\* the product after it.
C6_HistoryUpdatedRegardless ==
    /\ \A id \in DOMAIN all_apps_data :
          /\ Has(history, id)
          /\ history[id].last_price = all_apps_data[id].current_price
          /\ history[id].last_discount = all_apps_data[id].discount_percent
    /\ last.observed =>
          /\ Has(all_apps_data, last.app_id)
          /\ all_apps_data[last.app_id].current_price = last.price
          /\ all_apps_data[last.app_id].discount_percent = last.discount
          /\ i = Len(fetched) + 1
          /\ fetched[Len(fetched)] = last.app_id
    /\ \A k \in 1..Len(sent) : Has(all_apps_data, sent[k].app_id)

\* The notifier failed for the first product; the second was still processed,
\* without a matching rule, and both records hold what was observed.
C6_Witness ==
    /\ Len(APPS) = 2
    /\ Len(sent) = 1
    /\ sent[1].app_id = APPS[1]
    /\ ~sent[1].delivered
    /\ last.observed
    /\ last.app_id = APPS[2]
    /\ ~last.should_notify
    /\ DOMAIN all_apps_data = {APPS[1], APPS[2]}

\* C7. Failure isolation and single persist: whatever products fail, every
\* configured product is fetched exactly once, in configuration order, the
\* loop reaches its end, and save_history is called exactly once, after the
\* last product, with the records of all products processed successfully.
C7_FailureIsolation ==
    /\ pc = "loop" =>
          /\ saves = <<>>
          /\ i <= Len(APPS) + 1
          /\ fetched = SubSeq(APPS, 1, i - 1)
          /\ ENABLED (SkipApp \/ ProcessApp \/ FinishPass)
    /\ (pc = "idle" /\ now > 0) =>
          /\ fetched = APPS
          /\ Len(saves) = 1
          /\ DOMAIN all_apps_data \subseteq DOMAIN saves[1].history
          /\ \A id \in DOMAIN all_apps_data :
                /\ saves[1].history[id].last_price
                      = all_apps_data[id].current_price
                /\ saves[1].history[id].last_discount
                      = all_apps_data[id].discount_percent
                /\ saves[1].history[id].last_checked = now

\* A finished pass over two products whose first one failed in an except
\* clause: the second was fetched and observed, and its record was saved.
C7_Witness ==
    /\ pc = "idle"
    /\ Len(APPS) = 2
    /\ fetched = APPS
    /\ apps_checked = 1
    /\ DOMAIN all_apps_data = {APPS[2]}
    /\ Len(saves) = 1
    /\ APPS[2] \in DOMAIN saves[1].history
    /\ APPS[1] \notin DOMAIN saves[1].history

\* C8. Last-notified timestamp: when a record is updated, last_notification
\* is the current time only if the notifier was invoked for the product in
\* this pass; otherwise it is the previous record's value, or empty when there
\* was none.
C8_LastNotification ==
    last.observed =>
        history[last.app_id].last_notification
            = (IF last.invoked THEN now
               ELSE last_notification(last.before, last.app_id))

\* C9. History records are never deleted: after a pass whose save succeeds,
\* the product ids in the file are a superset of those in the file before the
\* pass.
C9_NeverDeleted ==
    (pc = "idle" /\ Len(saves) = 1 /\ saves[1].saved) =>
        PersistedIds(fileAtStart) \subseteq PersistedIds(file)

\* C10. Skipped or failed products are a no-op on state: a failed fetch, a
\* response without the success flag, or product data with neither the free
\* flag nor a price block sends no notification for the product and leaves its
\* record, and every other record, as it was.
C10_SkippedIsNoOp ==
    Skipped =>
        /\ history = last.before
        /\ Calls(last.app_id) = 0
        /\ ~last.invoked
        /\ ~Has(all_apps_data, last.app_id)

\* A product with a record, in a history that also holds another product's
\* record, came back without price information.
C10_Witness ==
    /\ last.kind = "no_price"
    /\ HadRecord
    /\ Cardinality(DOMAIN history) = 2
    /\ history = last.before

\* -------------------------------------------------- reference rule list
\* The decision rules as the specification lists them, in precedence order,
\* applied to what the last iteration saw.
RefRules == <<"first-time", "price-drop", "discount-increase", "new-discount">>

RefMatches(rule) ==
    CASE rule = "first-time" -> ~HadRecord
      [] rule = "price-drop" ->
            HadRecord /\ last.price < PriorRecord.last_price
      [] rule = "discount-increase" ->
            HadRecord /\ last.discount > PriorRecord.last_discount
      [] rule = "new-discount" ->
            /\ HadRecord
            /\ last.discount >= MIN_DISCOUNT
            /\ PriorRecord.last_discount = 0

\* First match wins: the first rule from position k on that matches.
RECURSIVE RefFirstFrom(_)
RefFirstFrom(k) ==
    IF k > Len(RefRules) THEN "none"
    ELSE IF RefMatches(RefRules[k]) THEN RefRules[k]
    ELSE RefFirstFrom(k + 1)

RefRule == RefFirstFrom(1)

RefNotify ==
    IF RefRule = "first-time" THEN last.discount >= MIN_DISCOUNT
    ELSE RefRule # "none"

RefReason == IF RefNotify THEN RefRule ELSE "none"

\* The tag a notification_reason string of the code stands for.
ReasonTag(reason) ==
    CASE reason = "Nueva verificacion con descuento" -> "first-time"
      [] reason = "Precio reducido" -> "price-drop"
      [] reason = "Descuento aumentado" -> "discount-increase"
      [] reason = "Nuevo descuento" -> "new-discount"
      [] OTHER -> "none"

\* C11. Rule precedence and reason tag: should_notify and the reason computed
\* by check_steam_prices equal those of the reference rule list evaluated
\* first-match-wins (first-time, price-drop, discount-increase, new-discount,
\* otherwise no notify); when the price dropped and the discount increased the
\* reason is price-drop; prior {1000, 0}, observation {500, 50}, threshold 10
\* notifies with reason price-drop.
C11_RulePrecedence ==
    last.observed =>
        /\ last.should_notify = RefNotify
        /\ ReasonTag(last.reason) = RefReason
        /\ (/\ HadRecord
            /\ last.price < PriorRecord.last_price
            /\ last.discount > PriorRecord.last_discount) =>
              (last.should_notify /\ last.reason = "Precio reducido")
        /\ (/\ HadRecord
            /\ PriorRecord.last_price = 1000
            /\ PriorRecord.last_discount = 0
            /\ last.price = 500
            /\ last.discount = 50
            /\ MIN_DISCOUNT = 10) =>
              (/\ last.should_notify
               /\ last.reason = "Precio reducido"
               /\ last.invoked)

\* The example of the specification: prior {1000, 0}, observation {500, 50},
\* threshold 10, where price-drop and discount-increase both match.
C11_Witness ==
    /\ last.observed
    /\ HadRecord
    /\ PriorRecord.last_price = 1000
    /\ PriorRecord.last_discount = 0
    /\ last.price = 500
    /\ last.discount = 50
    /\ MIN_DISCOUNT = 10
    /\ last.reason = "Precio reducido"
    /\ Calls(last.app_id) = 1

\* C12. The new-discount rule is dead for positive thresholds: with a
\* threshold >= 1 the fourth branch (reason "Nuevo descuento") is never the
\* one that sets should_notify, because an observation that satisfies it is
\* taken by the price-drop or the discount-increase branch before it; it
\* fires only when the threshold is <= 0.
C12_NewDiscountDead ==
    /\ (last.observed /\ last.reason = "Nuevo descuento") => MIN_DISCOUNT <= 0
    /\ \A k \in 1..Len(sent) :
          sent[k].reason = "Nuevo descuento" => MIN_DISCOUNT <= 0
    /\ (/\ last.observed
        /\ HadRecord
        /\ MIN_DISCOUNT >= 1
        /\ last.discount >= MIN_DISCOUNT
        /\ last_discount(PriorRecord) = 0) =>
          last.reason \in {"Precio reducido", "Descuento aumentado"}

\* Threshold 10, a record with last_discount 0, the same price and a discount
\* at or above the threshold: the fourth branch's condition is true, and the
\* discount-increase branch took the observation.
C12_Witness ==
    /\ last.observed
    /\ HadRecord
    /\ MIN_DISCOUNT >= 1
    /\ last.price = PriorRecord.last_price
    /\ last.discount >= MIN_DISCOUNT
    /\ last_discount(PriorRecord) = 0
    /\ last.reason = "Descuento aumentado"

====
